---- MODULE Spec2Model ----
(***************************************************************************)
(* Model of the OMNIKEY reader layer (omnikey_rs/src/structs.rs):          *)
(*   - ReaderData::new, the decoder of the 17-byte response frame;         *)
(*   - Reader::set_legacy_ccid_mode and Reader::check_for_rfid_card, the   *)
(*     write-then-read command exchanges on an open handle.                *)
(*                                                                         *)
(* Integers wider than 16 bits (the u32 length, the u64 id) are kept as    *)
(* little-endian sequences of 16-bit limbs, so that every shift, or and    *)
(* add is computed at the width the code computes it.                      *)
(***************************************************************************)
EXTENDS Integers, Naturals, Sequences, FiniteSets, TLC

VARIABLES
    overflow_checks,  \* build profile: TRUE = overflow checks on (debug)
    data,             \* the [u8;17] handed to ReaderData::new
    decoded,          \* outcome of ReaderData::new(data), NoResult before
    pc,               \* per caller: position inside the current call
    op,               \* per caller: the method being executed
    callno,           \* per caller: number of the current call
    ret,              \* per call, in order of start: its outcome, or Pending
    ncalls,           \* calls started so far on the session
    log,              \* bulk transfers issued on the handle, in order
    devices,          \* the USB devices the host enumerates, in order
    handles,          \* the device handles that are open
    news,             \* outcomes of the calls of Reader::new, in order
    next_user_id,     \* NEXT_USER_ID
    users,            \* the registry: user id -> connection owning the sender
    wpc,              \* per connection: position inside user_connected
    my_id,            \* per connection: the id it fetched, 0 before
    chan,             \* per connection: the unbounded channel tx -> rx
    fwd,              \* per connection: messages its task sent to the websocket
    todo,             \* per connection: ids its broadcast loop has yet to visit
    cur,              \* per connection: the reply its broadcast loop sends
    nsent,            \* per connection: text messages it has handled
    nmsgs             \* messages received on all connections

vars == <<overflow_checks, data, decoded, pc, op, callno, ret, ncalls, log,
          devices, handles, news,
          next_user_id, users, wpc, my_id, chan, fwd, todo, cur, nsent, nmsgs>>

decodeVars == <<data, decoded>>
readerVars == <<pc, op, callno, ret, ncalls, log>>
openVars == <<devices, handles, news>>
wsVars == <<next_user_id, users, wpc, my_id, chan, fwd, todo, cur, nsent, nmsgs>>

----------------------------------------------------------------------------
(* Bounds of the model *)

\* largest value of the low length byte enumerated one by one
MaxLenByte == 19
\* calls started on the session in one behaviour
MaxCalls == 2
\* devices in one enumeration
MaxDevices == 3
\* calls of Reader::new in one behaviour
MaxNew == 2
\* websocket connections in one behaviour
MaxConns == 2
\* messages received on all connections in one behaviour
MaxMsgs == 2

----------------------------------------------------------------------------
(* Fixed-width arithmetic *)

Limb == 65536

Pow2(k) == 2 ^ k

RECURSIVE BitOr(_, _)
\* bitwise or of two naturals
BitOr(a, b) ==
    IF a = 0 THEN b
    ELSE IF b = 0 THEN a
    ELSE (IF (a % 2 = 1) \/ (b % 2 = 1) THEN 1 ELSE 0)
            + 2 * BitOr(a \div 2, b \div 2)

\* u32::from(u8) / u64::from(u8): zero extension to w limbs
WFromU8(w, b) == [i \in 1..w |-> IF i = 1 THEN b ELSE 0]

\* x << k on a w-limb integer, k below the bit width; bits shifted out are lost
WShl(x, k) ==
    LET q == k \div 16
        r == k % 16
    IN  [i \in 1..Len(x) |->
            LET j == i - q
                lo == IF j >= 1 THEN (x[j] * Pow2(r)) % Limb ELSE 0
                hi == IF j - 1 >= 1 THEN (x[j - 1] * Pow2(r)) \div Limb ELSE 0
            IN  lo + hi]

\* x | y
WOr(x, y) == [i \in 1..Len(x) |-> BitOr(x[i], y[i])]

RECURSIVE WCarry(_, _, _)
\* carry into limb i of x + y
WCarry(x, y, i) ==
    IF i = 1 THEN 0
    ELSE (x[i - 1] + y[i - 1] + WCarry(x, y, i - 1)) \div Limb

\* x + y (the sums of the decoder stay below 2^40, far inside the width)
WAdd(x, y) == [i \in 1..Len(x) |-> (x[i] + y[i] + WCarry(x, y, i)) % Limb]

\* x == n and x >= n for a small literal n
WEqLit(x, n) == x[1] = n /\ \A i \in 2..Len(x) : x[i] = 0
WGeLit(x, n) == x[1] >= n \/ \E i \in 2..Len(x) : x[i] > 0

RECURSIVE WBorrow(_, _, _)
\* borrow into limb i of x - n (n a small literal, subtracted from limb 1)
WBorrow(x, n, i) ==
    IF i = 1 THEN 0
    ELSE IF i = 2 THEN (IF x[1] < n THEN 1 ELSE 0)
    ELSE (IF x[i - 1] < WBorrow(x, n, i - 1) THEN 1 ELSE 0)

\* x - n, for x >= n
WSubLit(x, n) ==
    [i \in 1..Len(x) |->
        (x[i] + Limb - (IF i = 1 THEN n ELSE 0) - WBorrow(x, n, i)) % Limb]

\* u16 << s: panics under overflow checks when s >= 16, otherwise the shift
\* amount is masked to four bits and the value truncated to 16 bits
Shl16Overflows(s) == s >= 16
Shl16(a, s) == (a * Pow2(s % 16)) % Limb

----------------------------------------------------------------------------
(* The response frame and its decoder *)

BufLen == 17
Offsets == 0..(BufLen - 1)

ZeroBuf == [i \in Offsets |-> 0]

U64Zero == WFromU8(4, 0)

NoResult == [kind |-> "none"]

Panic(why) == [kind |-> "panic", why |-> why]

\* variant: the four length bytes taken most significant first
DecodeLengthBigEndian(d) ==
    WOr(WOr(WOr(WShl(WFromU8(2, d[1]), 24),
                WShl(WFromU8(2, d[2]), 16)),
            WShl(WFromU8(2, d[3]), 8)),
        WFromU8(2, d[4]))

\* length: the 32-bit little-endian header field
DecodeLength(d) ==
    WOr(WOr(WOr(WShl(WFromU8(2, d[4]), 24),
                WShl(WFromU8(2, d[3]), 16)),
            WShl(WFromU8(2, d[2]), 8)),
        WFromU8(2, d[1]))

RECURSIVE IdLoopLittleEndian(_, _, _)
\* variant: byte 10 + i shifted by i * 8
IdLoopLittleEndian(d, i, id) ==
    IF i >= 5 THEN id
    ELSE IdLoopLittleEndian(d, i + 1, WAdd(id, WShl(WFromU8(4, d[10 + i]), i * 8)))

RECURSIVE IdLoop(_, _, _)
\* for i in 0..5 { id += u64::from(data[10 + i]) << ((4 - i) * 8) }
IdLoop(d, i, id) ==
    IF i >= 5 THEN id
    ELSE IdLoop(d, i + 1, WAdd(id, WShl(WFromU8(4, d[10 + i]), (4 - i) * 8)))

\* adpu_status of the length == 7 branch
CardStatus(d) == BitOr(Shl16(d[15], 8), d[16])

\* shift amount of the other branch: 8 + u16::from(data[ind2])
ErrShift(d, ind2) == 8 + d[ind2]

\* adpu_status of the other branch: u16::from(data[ind1]) << 8 + u16::from(data[ind2])
ErrStatus(d, ind1, ind2) == Shl16(d[ind1], ErrShift(d, ind2))

\* an index into the [u8;17] that passes the bounds check
InBounds(ix) == ~WGeLit(ix, BufLen)

ReaderData(d, length, valid, id, adpu_status, reads) ==
    [kind            |-> "data",
     message_type    |-> d[0],
     length          |-> length,
     slot            |-> d[5],
     seq             |-> d[6],
     status          |-> d[7],
     error           |-> d[8],
     chain_parameter |-> d[9],
     valid           |-> valid,
     id              |-> id,
     adpu_status     |-> adpu_status,
     reads           |-> reads]

\* variant: length >= 7
IsCardLengthAtLeast(length) == WGeLit(length, 7)

\* if length == 7
IsCardLength(length) == WEqLit(length, 7)

\* variant: length >= 1
HasStatusBytesFromOne(length) == WGeLit(length, 1)

\* else if length >= 2
HasStatusBytes(length) == WGeLit(length, 2)

\* ReaderData::new(data); oc = overflow checks of the build.
\* reads: the payload offsets the branch taken has indexed.
ReaderDataNew(d, oc) ==
    LET length == DecodeLength(d) IN
    IF IsCardLength(length)
    THEN ReaderData(d, length, TRUE, IdLoop(d, 0, U64Zero), CardStatus(d), 10..16)
    ELSE IF HasStatusBytes(length)
    THEN LET ind1 == WSubLit(length, 2)
             ind2 == WSubLit(length, 1)
         IN  IF ~InBounds(ind1) THEN Panic("index out of bounds")
             ELSE IF ~InBounds(ind2) THEN Panic("index out of bounds")
             ELSE IF oc /\ Shl16Overflows(ErrShift(d, ind2[1]))
                  THEN Panic("shift left with overflow")
             ELSE ReaderData(d, length, FALSE, U64Zero,
                             ErrStatus(d, ind1[1], ind2[1]), {ind1[1], ind2[1]})
    ELSE ReaderData(d, length, FALSE, U64Zero, 0, {})

----------------------------------------------------------------------------
(* Response buffers enumerated by the decoder specification *)

\* identifier 01 02 03 04 05, status 90 00
CardPayload == [i \in Offsets |->
    IF i = 0 THEN 128
    ELSE IF i \in 10..14 THEN i - 9
    ELSE IF i = 15 THEN 144
    ELSE 0]

\* a different value at every offset
RampBuf == [i \in Offsets |-> 15 * i + 3]

Backgrounds == {
    ZeroBuf,
    [i \in Offsets |-> 255],
    RampBuf,
    CardPayload }

LenLowBytes == (0..MaxLenByte) \cup {255}
LenHighBytes == { <<0, 0, 0>>, <<1, 0, 0>>, <<0, 1, 0>>, <<0, 0, 1>>,
                  <<255, 0, 0>>, <<0, 0, 255>>, <<255, 255, 255>> }
PokeOffsets == {0} \cup (5..16)
PokeBytes == {0, 7, 99, 255}

\* buffer: a background, the four length bytes, and one byte overwritten
MakeBuf(bg, lo, hi, p, v) ==
    [i \in Offsets |->
        IF i = 1 THEN lo
        ELSE IF i \in 2..4 THEN hi[i - 1]
        ELSE IF i = p THEN v
        ELSE bg[i]]

InputBufs ==
    { MakeBuf(bg, lo, hi, p, v) :
        bg \in Backgrounds, lo \in LenLowBytes, hi \in LenHighBytes,
        p \in PokeOffsets, v \in PokeBytes }

----------------------------------------------------------------------------
(* The callers of one session *)

Callers == {"A", "B"}

----------------------------------------------------------------------------
(* Construction and release of the session *)

OMNIKEY_VENDOR_ID == 1899
OMNIKEY_PRODUCT_ID == 20522

\* an attached device: whether its descriptor can be read, and its ids
Device(desc_ok, vid, pid) == [desc_ok |-> desc_ok, vid |-> vid, pid |-> pid]

VendorIds == {OMNIKEY_VENDOR_ID, 1133}
ProductIds == {OMNIKEY_PRODUCT_ID, 20513}
DeviceKinds == {Device(d, v, p) : d \in BOOLEAN, v \in VendorIds, p \in ProductIds}

RECURSIVE SeqsUpTo(_, _)
\* the sequences over S of length at most n
SeqsUpTo(S, n) ==
    IF n = 0 THEN {<<>>}
    ELSE LET shorter == SeqsUpTo(S, n - 1)
         IN  shorter \cup {Append(q, x) : q \in {r \in shorter : Len(r) = n - 1}, x \in S}

Enumerations == SeqsUpTo(DeviceKinds, MaxDevices)

\* variant: the vendor id alone selects the device
IsOmnikeyVendorOnly(dev) == dev.vid = OMNIKEY_VENDOR_ID

\* device_desc.vendor_id() == OMNIKEY_VENDOR_ID &&
\* device_desc.product_id() == OMNIKEY_PRODUCT_ID
IsOmnikey(dev) == dev.vid = OMNIKEY_VENDOR_ID /\ dev.pid = OMNIKEY_PRODUCT_ID

RECURSIVE FindTarget(_, _)
\* the for loop over the enumeration from position i: the position of the
\* device it breaks on, 0 when it runs to the end
FindTarget(devs, i) ==
    IF i > Len(devs) THEN 0
    ELSE IF ~devs[i].desc_ok THEN FindTarget(devs, i + 1)
    ELSE IF IsOmnikey(devs[i]) THEN i
    ELSE FindTarget(devs, i + 1)

Handle(n, d) == [h |-> n, dev |-> d]

NewPanic(why) == [kind |-> "panic", why |-> why, enumerated |-> FALSE]
NewErr(msg) == [kind |-> "err", msg |-> msg, enumerated |-> TRUE]
NewOk(t, h) == [kind |-> "ok", device |-> t, handle |-> h, enumerated |-> TRUE]

\* Reader::new(); list_ok: whether DeviceList::new() succeeded, open_ok:
\* whether target.open() succeeded
ReaderNew ==
    /\ Len(news) < MaxNew
    /\ \E list_ok \in BOOLEAN, open_ok \in BOOLEAN :
        LET target == FindTarget(devices, 1)
            h == Handle(Len(news) + 1, target)
        IN  IF ~list_ok
            THEN /\ news' = Append(news, NewPanic("unwrap on Err"))
                 /\ handles' = handles
            ELSE IF target = 0
            THEN /\ news' = Append(news, NewErr("Could not find Omnikey Reader."))
                 /\ handles' = handles
            ELSE IF ~open_ok
            THEN /\ news' = Append(news, NewErr("Error opening handle"))
                 /\ handles' = handles
            ELSE /\ news' = Append(news, NewOk(target, h))
                 /\ handles' = handles \cup {h}
    /\ UNCHANGED <<wsVars, overflow_checks, decodeVars, readerVars, devices>>

\* the Reader goes out of scope and its handle is closed; a Reader that a
\* call still borrows cannot be dropped
ReaderDrop(h) ==
    /\ h \in handles
    /\ \A t \in Callers : pc[t] # "read"
    /\ handles' = handles \ {h}
    /\ UNCHANGED <<wsVars, overflow_checks, decodeVars, readerVars, devices, news>>

\* the session the callers share: the first device, opened once
SessionDevices == <<Device(TRUE, OMNIKEY_VENDOR_ID, OMNIKEY_PRODUCT_ID)>>
SessionHandle == Handle(1, 1)

----------------------------------------------------------------------------
(* The session: command frames, endpoints and the two exchanges *)

LegacyCmd == <<255, 112, 7, 107, 7, 162, 5, 161, 3, 139, 1, 0, 0>>
GetDataCmd == <<111, 5, 0, 0, 0, 0, 0, 1, 0, 0, 255, 202, 0, 0, 0>>

BulkOut == 1
BulkIn == 130
TimeoutMs == 100

\* variant: the Get Data frame sent by both methods
CmdGetDataOnly(o) == GetDataCmd

\* the frame each method sends
Cmd(o) == IF o = "set_legacy_ccid_mode" THEN LegacyCmd ELSE GetDataCmd

\* what write_bulk can report: an error, or a count of accepted bytes
WriteOutcomes(cmd) ==
    {[ok |-> FALSE, n |-> 0]}
        \cup {[ok |-> TRUE, n |-> k] : k \in {0, 1, Len(cmd) - 1, Len(cmd)}}

\* frames the device may answer with: a card, a frame declaring more
\* bytes than the buffer holds, a status-only frame
DeviceFrames == {
    MakeBuf(CardPayload, 7, <<0, 0, 0>>, 0, 128),
    MakeBuf(CardPayload, 18, <<0, 0, 0>>, 0, 128),
    MakeBuf(RampBuf, 10, <<0, 0, 0>>, 9, 0) }

\* what read_bulk can report: an error, or a count of received bytes
\* together with the bytes
ReadCounts == {0, 12, BufLen}
ReadOutcomes ==
    {[ok |-> FALSE, n |-> 0, bytes |-> ZeroBuf]}
        \cup {[ok |-> TRUE, n |-> k, bytes |-> f] : k \in ReadCounts, f \in DeviceFrames}

\* the bytes the transfer delivered
Received(r) == [i \in 0..(r.n - 1) |-> r.bytes[i]]

\* let mut buf = [0; 17], then the first n bytes received
FillBuf(r) == [i \in Offsets |-> IF i < r.n THEN r.bytes[i] ELSE 0]

\* self.handle.write_bulk(0x01, &cmd, timeout)
WriteTransfer(t, c, o, cmd, w) ==
    [caller |-> t, call |-> c, op |-> o, kind |-> "write_bulk",
     endpoint |-> BulkOut, bytes |-> cmd, buflen |-> Len(cmd),
     timeout |-> TimeoutMs, ok |-> w.ok, n |-> w.n]

\* self.handle.read_bulk(0x82, &mut buf, timeout)
ReadTransfer(t, c, o, r) ==
    [caller |-> t, call |-> c, op |-> o, kind |-> "read_bulk",
     endpoint |-> BulkIn, bytes |-> Received(r), buflen |-> BufLen,
     timeout |-> TimeoutMs, ok |-> r.ok, n |-> r.n]

Pending == [kind |-> "pending"]
Err(msg, expected, sent) ==
    [kind |-> "err", msg |-> msg, expected |-> expected, sent |-> sent]
OkUnit == [kind |-> "ok"]
OkData(rd) == [kind |-> "ok_data", value |-> rd]
Unwound(p) == [kind |-> "panic", why |-> p.why]

\* variant: only an empty write is refused
ShortWriteOnlyEmpty(sent, cmd) == sent = 0

\* if bytes_sent != cmd.len() { return Err(..) }
ShortWrite(sent, cmd) == sent # Len(cmd)

\* variant: the acknowledgement must fill the buffer
LegacyResultFullRead(r) ==
    IF r.ok /\ r.n = BufLen THEN OkUnit ELSE Err("read", 0, 0)

\* match bytes_sent { Ok(_) => {}, Err(e) => return Err(..) }; Ok(())
LegacyResult(r) == IF r.ok THEN OkUnit ELSE Err("read", 0, 0)

\* variant: a failed read is issued again
AfterReadRetry(r) == IF r.ok THEN "idle" ELSE "read"

\* where the caller stands after the match on the result of read_bulk:
\* both arms leave the method
AfterRead(r) == "idle"

\* the part of a call up to its return or its read: write_bulk, the match
\* on its result and the comparison of the count with the frame length
WriteStep(t, o, w) ==
    LET c == ncalls + 1
        cmd == Cmd(o)
    IN  /\ pc[t] = "idle"
        /\ SessionHandle \in handles
        /\ ncalls < MaxCalls
        /\ ncalls' = c
        /\ op' = [op EXCEPT ![t] = o]
        /\ callno' = [callno EXCEPT ![t] = c]
        /\ log' = Append(log, WriteTransfer(t, c, o, cmd, w))
        /\ IF ~w.ok
           THEN /\ pc' = pc
                /\ ret' = Append(ret, Err("send", 0, 0))
           ELSE IF ShortWrite(w.n, cmd)
           THEN /\ pc' = pc
                /\ ret' = Append(ret, Err("short write", Len(cmd), w.n))
           ELSE /\ pc' = [pc EXCEPT ![t] = "read"]
                /\ ret' = Append(ret, Pending)
        /\ UNCHANGED <<wsVars, overflow_checks, decodeVars, openVars>>

\* set_legacy_ccid_mode, up to the read
SetLegacyCcidModeWrite(t) ==
    \E w \in WriteOutcomes(Cmd("set_legacy_ccid_mode")) :
        WriteStep(t, "set_legacy_ccid_mode", w)

\* set_legacy_ccid_mode, from the read to the return
SetLegacyCcidModeRead(t) ==
    /\ pc[t] = "read"
    /\ op[t] = "set_legacy_ccid_mode"
    /\ \E r \in ReadOutcomes :
        /\ log' = Append(log, ReadTransfer(t, callno[t], op[t], r))
        /\ ret' = [ret EXCEPT ![callno[t]] = LegacyResult(r)]
        /\ pc' = [pc EXCEPT ![t] = AfterRead(r)]
    /\ UNCHANGED <<wsVars, overflow_checks, decodeVars, openVars, op, callno, ncalls>>

\* check_for_rfid_card, up to the read
CheckForRfidCardWrite(t) ==
    \E w \in WriteOutcomes(Cmd("check_for_rfid_card")) :
        WriteStep(t, "check_for_rfid_card", w)

\* check_for_rfid_card, from the read to the return (or the unwinding of
\* the caller when ReaderData::new panics)
CheckForRfidCardRead(t) ==
    /\ pc[t] = "read"
    /\ op[t] = "check_for_rfid_card"
    /\ \E r \in ReadOutcomes :
        LET c == callno[t]
            rd == ReaderDataNew(FillBuf(r), overflow_checks)
        IN  /\ log' = Append(log, ReadTransfer(t, c, op[t], r))
            /\ IF ~r.ok
               THEN /\ ret' = [ret EXCEPT ![c] = Err("read", 0, 0)]
                    /\ pc' = [pc EXCEPT ![t] = AfterRead(r)]
               ELSE IF rd.kind = "panic"
               THEN /\ ret' = [ret EXCEPT ![c] = Unwound(rd)]
                    /\ pc' = [pc EXCEPT ![t] = "panicked"]
               ELSE /\ ret' = [ret EXCEPT ![c] = OkData(rd)]
                    /\ pc' = [pc EXCEPT ![t] = AfterRead(r)]
    /\ UNCHANGED <<wsVars, overflow_checks, decodeVars, openVars, op, callno, ncalls>>

----------------------------------------------------------------------------
(* The websocket relay (src/websocket.rs) *)

Conns == 1..MaxConns

\* the empty HashMap
NoUsers == [id \in {} |-> 0]

\* users.insert(id, tx), tx being the sender of connection c
Insert(map, id, c) ==
    [k \in DOMAIN map \cup {id} |-> IF k = id THEN c ELSE map[k]]

\* variant: the registry is emptied
RemoveAll(map, id) == NoUsers

\* users.remove(&id)
Remove(map, id) == [k \in DOMAIN map \ {id} |-> map[k]]

\* variant: the counter is read and left as it is
FetchAddNone(v) == v

\* the value NEXT_USER_ID holds after fetch_add(1); the counter is a usize
\* and the connections of a behaviour are far too few to wrap it
FetchAdd(v) == v + 1

\* a websocket message: a text frame with its string, or another frame
TextMsg(str) == [text |-> TRUE, str |-> str]
BinaryMsg == [text |-> FALSE, str |-> ""]
Incoming ==
    {TextMsg(x) : x \in {"hello", "get_all_people"}}
        \cup {BinaryMsg}

\* WebsocketOutgoingMessage, as serialised by serde_json
Outgoing(msgtype, message) == [msgtype |-> msgtype, message |-> message]

\* the reply user_message builds for the text str; rows is the serialised
\* result of the query
Reply(str, rows) ==
    IF str = "hello" THEN Outgoing("message", "hello world!")
    ELSE IF str = "pressed_a_button" THEN Outgoing("message", "you sure did, champ")
    ELSE IF str = "get_all_people" THEN Outgoing("in_shop_add", rows)
    ELSE Outgoing("null", "")

\* what the database does for get_all_people: the rows, or a failed
\* connect / query on which unwrap() panics
DbOutcomes == {"rows", "failed"}

\* Message::text(new_msg.clone()); from and seq record which connection
\* handled which of its messages to build it
Queued(c, k, body) == [from |-> c, seq |-> k, body |-> body]

\* variant: the newest message is put at the head of the channel
EnqueueFront(q, e) == <<e>> \o q

\* tx.send(message): the channel is first in, first out
Enqueue(q, e) == Append(q, e)

\* a broadcast loop holds the read guard of the registry
ReadLocked == \E c \in Conns : wpc[c] = "broadcast"

\* user_connected, line 30: my_id = NEXT_USER_ID.fetch_add(1, Relaxed)
FetchId(c) ==
    /\ wpc[c] = "new"
    /\ my_id' = [my_id EXCEPT ![c] = next_user_id]
    /\ next_user_id' = FetchAdd(next_user_id)
    /\ wpc' = [wpc EXCEPT ![c] = "fetched"]
    /\ UNCHANGED <<overflow_checks, decodeVars, readerVars, openVars,
                   users, chan, fwd, todo, cur, nsent, nmsgs>>

\* user_connected, lines 35-54: the channel, the forwarding task, and
\* users.write().await.insert(my_id, tx)
InsertUser(c) ==
    /\ wpc[c] = "fetched"
    /\ ~ReadLocked
    /\ users' = Insert(users, my_id[c], c)
    /\ wpc' = [wpc EXCEPT ![c] = "recv"]
    /\ UNCHANGED <<overflow_checks, decodeVars, readerVars, openVars,
                   next_user_id, my_id, chan, fwd, todo, cur, nsent, nmsgs>>

\* user_connected, lines 61-69, and user_message up to its for loop: a
\* message arrives; a frame that is not text is skipped, a text is answered:
\* the reply is built and the read guard of the registry taken
UserMessage(c) ==
    /\ wpc[c] = "recv"
    /\ nmsgs < MaxMsgs
    /\ nmsgs' = nmsgs + 1
    /\ \E msg \in Incoming, db \in DbOutcomes :
        IF ~msg.text
        THEN UNCHANGED <<wpc, todo, cur, nsent>>
        ELSE IF msg.str = "get_all_people" /\ db = "failed"
        THEN /\ wpc' = [wpc EXCEPT ![c] = "panicked"]
             /\ UNCHANGED <<todo, cur, nsent>>
        ELSE /\ wpc' = [wpc EXCEPT ![c] = "broadcast"]
             /\ nsent' = [nsent EXCEPT ![c] = @ + 1]
             /\ cur' = [cur EXCEPT ![c] = Queued(c, nsent[c] + 1, Reply(msg.str, "rows"))]
             /\ todo' = [todo EXCEPT ![c] = DOMAIN users]
    /\ UNCHANGED <<overflow_checks, decodeVars, readerVars, openVars,
                   next_user_id, users, my_id, chan, fwd>>

\* user_message, lines 132-138: one turn of the for loop over the registry,
\* in the order the HashMap yields; the guard is released after the last
BroadcastSend(c) ==
    /\ wpc[c] = "broadcast"
    /\ \E id \in todo[c] :
        /\ chan' = [chan EXCEPT ![users[id]] = Enqueue(@, cur[c])]
        /\ todo' = [todo EXCEPT ![c] = @ \ {id}]
        /\ wpc' = [wpc EXCEPT ![c] = IF todo[c] = {id} THEN "recv" ELSE "broadcast"]
    /\ UNCHANGED <<overflow_checks, decodeVars, readerVars, openVars,
                   next_user_id, users, my_id, fwd, cur, nsent, nmsgs>>

\* the spawned task, lines 42-51: the next message of the channel is sent
\* to the websocket
Forward(c) ==
    /\ chan[c] # <<>>
    /\ fwd' = [fwd EXCEPT ![c] = Append(@, Head(chan[c]))]
    /\ chan' = [chan EXCEPT ![c] = Tail(@)]
    /\ UNCHANGED <<overflow_checks, decodeVars, readerVars, openVars,
                   next_user_id, users, wpc, my_id, todo, cur, nsent, nmsgs>>

\* user_connected, lines 61-68: the incoming stream ends (None) or yields
\* an error, and the loop is left
StreamEnd(c) ==
    /\ wpc[c] = "recv"
    /\ wpc' = [wpc EXCEPT ![c] = "disconnecting"]
    /\ UNCHANGED <<overflow_checks, decodeVars, readerVars, openVars,
                   next_user_id, users, my_id, chan, fwd, todo, cur, nsent, nmsgs>>

\* user_disconnected: users.write().await.remove(&my_id)
UserDisconnected(c) ==
    /\ wpc[c] = "disconnecting"
    /\ ~ReadLocked
    /\ users' = Remove(users, my_id[c])
    /\ wpc' = [wpc EXCEPT ![c] = "done"]
    /\ UNCHANGED <<overflow_checks, decodeVars, readerVars, openVars,
                   next_user_id, my_id, chan, fwd, todo, cur, nsent, nmsgs>>

----------------------------------------------------------------------------
(* Specifications *)

\* ReaderData::new applied to the buffer under test
Decode ==
    /\ decoded = NoResult
    /\ decoded' = ReaderDataNew(data, overflow_checks)
    /\ UNCHANGED <<wsVars, overflow_checks, data, readerVars, openVars>>

InitReader ==
    /\ pc = [t \in Callers |-> "idle"]
    /\ op = [t \in Callers |-> "none"]
    /\ callno = [t \in Callers |-> 0]
    /\ ret = <<>>
    /\ ncalls = 0
    /\ log = <<>>

\* no session constructed
InitClosed ==
    /\ devices = <<>>
    /\ handles = {}
    /\ news = <<>>

\* the relay before any connection
InitRelay ==
    /\ next_user_id = 1
    /\ users = NoUsers
    /\ wpc = [c \in Conns |-> "new"]
    /\ my_id = [c \in Conns |-> 0]
    /\ chan = [c \in Conns |-> <<>>]
    /\ fwd = [c \in Conns |-> <<>>]
    /\ todo = [c \in Conns |-> {}]
    /\ cur = [c \in Conns |-> NoResult]
    /\ nsent = [c \in Conns |-> 0]
    /\ nmsgs = 0

InitDecode ==
    /\ overflow_checks \in BOOLEAN
    /\ data \in InputBufs
    /\ decoded = NoResult
    /\ InitReader
    /\ InitClosed
    /\ InitRelay

NextDecode == Decode

SpecDecode == InitDecode /\ [][NextDecode]_vars

\* an open session shared by the callers
InitSession ==
    /\ overflow_checks \in BOOLEAN
    /\ data = ZeroBuf
    /\ decoded = NoResult
    /\ InitReader
    /\ devices = SessionDevices
    /\ handles = {SessionHandle}
    /\ news = <<NewOk(1, SessionHandle)>>
    /\ InitRelay

NextSession ==
    \/ \E t \in Callers :
        \/ SetLegacyCcidModeWrite(t)
        \/ SetLegacyCcidModeRead(t)
        \/ CheckForRfidCardWrite(t)
        \/ CheckForRfidCardRead(t)
    \/ ReaderDrop(SessionHandle)

SpecSession == InitSession /\ [][NextSession]_vars

\* a host with some enumeration of devices, on which sessions are
\* constructed and dropped
InitOpen ==
    /\ overflow_checks = FALSE
    /\ data = ZeroBuf
    /\ decoded = NoResult
    /\ InitReader
    /\ devices \in Enumerations
    /\ handles = {}
    /\ news = <<>>
    /\ InitRelay

NextOpen ==
    \/ ReaderNew
    \/ \E h \in handles : ReaderDrop(h)

SpecOpen == InitOpen /\ [][NextOpen]_vars

\* the relay serving its connections
InitWs ==
    /\ overflow_checks = FALSE
    /\ data = ZeroBuf
    /\ decoded = NoResult
    /\ InitReader
    /\ InitClosed
    /\ InitRelay

NextWs ==
    \E c \in Conns :
        \/ FetchId(c)
        \/ InsertUser(c)
        \/ UserMessage(c)
        \/ BroadcastSend(c)
        \/ Forward(c)
        \/ StreamEnd(c)
        \/ UserDisconnected(c)

SpecWs == InitWs /\ [][NextWs]_vars

\* the connections and the registry alone: the forwarding tasks neither
\* read nor write the registry and are left out
NextRegistry ==
    \E c \in Conns :
        \/ FetchId(c)
        \/ InsertUser(c)
        \/ UserMessage(c)
        \/ BroadcastSend(c)
        \/ StreamEnd(c)
        \/ UserDisconnected(c)

\* the runtime polls every task that can run, and the registry's lock is
\* granted in order of arrival
SpecRegistryFair ==
    /\ InitWs
    /\ [][NextRegistry]_vars
    /\ \A c \in Conns : WF_vars(BroadcastSend(c))
    /\ \A c \in Conns : WF_vars(UserDisconnected(c))

----------------------------------------------------------------------------
(* Properties of the decoder, checked under SpecDecode *)

\* the four length bytes declare the length n (n below 256)
RawLengthIs(n) == data[1] = n /\ data[2] = 0 /\ data[3] = 0 /\ data[4] = 0

\* C1: a buffer whose declared length is 7 decodes to valid = true, the
\* identifier made of bytes 10..14 (offset 10 most significant) and the
\* status buf[15] * 256 + buf[16].
C1_CardFrameDecoded ==
    (decoded # NoResult /\ RawLengthIs(7)) =>
        /\ decoded.kind = "data"
        /\ decoded.valid = TRUE
        /\ decoded.id = <<data[13] * 256 + data[14], data[11] * 256 + data[12],
                          data[10], 0>>
        /\ decoded.adpu_status = data[15] * 256 + data[16]

\* bytes 01 02 03 04 05 90 00 at offsets 10..16 decoded to 0x0102030405, 0x9000
C1_Witness ==
    /\ decoded.kind = "data"
    /\ RawLengthIs(7)
    /\ data[0] = 128
    /\ decoded.valid
    /\ decoded.id = <<1029, 515, 1, 0>>
    /\ decoded.adpu_status = 36864

\* C2: a buffer whose declared length n is in 2..6 or 8..15 decodes to
\* valid = false, identifier 0 and the status buf[n-2] * 256 + buf[n-1].
C2_StatusFromTrailingBytes ==
    \A n \in (2..6) \cup (8..15) :
        (decoded # NoResult /\ RawLengthIs(n)) =>
            /\ decoded.kind = "data"
            /\ decoded.valid = FALSE
            /\ decoded.id = U64Zero
            /\ decoded.adpu_status = data[n - 2] * 256 + data[n - 1]

\* C3: decoding returns a value for every buffer; it never panics.
C3_DecodeTotal ==
    decoded # NoResult => decoded.kind = "data"

\* C4: a buffer whose declared length is 0 or 1 decodes without a panic to
\* valid = false, identifier 0 and status 0, and no payload offset is read.
C4_ShortLengthUndecoded ==
    \A n \in {0, 1} :
        (decoded # NoResult /\ RawLengthIs(n)) =>
            /\ decoded.kind = "data"
            /\ decoded.valid = FALSE
            /\ decoded.id = U64Zero
            /\ decoded.adpu_status = 0
            /\ decoded.reads = {}

\* declared length 1 over a payload of 0xFF bytes, decoded
C4_Witness ==
    /\ decoded.kind = "data"
    /\ RawLengthIs(1)
    /\ data[0] = 255
    /\ data[16] = 255
    /\ decoded.reads = {}

\* C5: in every decoded result valid holds exactly when the declared length
\* is 7, the identifier is non-zero only then, and it is below 2^40.
C5_ValidOnlyForCardLength ==
    decoded.kind = "data" =>
        /\ decoded.valid <=> RawLengthIs(7)
        /\ decoded.id # U64Zero => RawLengthIs(7)
        /\ decoded.id[3] < 256
        /\ decoded.id[4] = 0

\* a card whose identifier fills all 40 bits, and a status-only frame
C5_Witness ==
    /\ decoded.kind = "data"
    /\ \/ /\ decoded.valid
          /\ decoded.id = <<65535, 65535, 255, 0>>
       \/ /\ ~decoded.valid
          /\ RawLengthIs(8)
          /\ data[10] = 255

\* C6: the header fields are copied from fixed offsets: message type buf[0],
\* length the little-endian 32-bit value of buf[1..4], slot buf[5],
\* sequence buf[6], status buf[7], error buf[8], chain parameter buf[9].
C6_HeaderFields ==
    /\ decoded # NoResult =>
            DecodeLength(data) = <<data[1] + 256 * data[2], data[3] + 256 * data[4]>>
    /\ decoded.kind = "data" =>
        /\ decoded.message_type = data[0]
        /\ decoded.length = <<data[1] + 256 * data[2], data[3] + 256 * data[4]>>
        /\ decoded.slot = data[5]
        /\ decoded.seq = data[6]
        /\ decoded.status = data[7]
        /\ decoded.error = data[8]
        /\ decoded.chain_parameter = data[9]

\* a returned result whose header bytes all differ
C6_Witness ==
    /\ decoded.kind = "data"
    /\ decoded.length = <<10, 0>>
    /\ decoded.message_type = 3
    /\ decoded.slot = 78
    /\ decoded.seq = 93
    /\ decoded.status = 108
    /\ decoded.error = 123
    /\ decoded.chain_parameter = 138

----------------------------------------------------------------------------
(* Properties of the session, checked under SpecSession *)

\* the frame length the method is specified to send
FrameLen(o) == IF o = "set_legacy_ccid_mode" THEN 13 ELSE 15

\* positions in the log of the transfers of call c
TransfersOf(c) == {i \in DOMAIN log : log[i].call = c}

\* log[i] is a write that reported a count different from the frame length
IsShortWrite(i) ==
    /\ log[i].kind = "write_bulk"
    /\ log[i].ok
    /\ log[i].n # FrameLen(log[i].op)

\* C7: a write that reports a count of accepted bytes different from the
\* frame length makes the call return the short-write error, and the call
\* issues no read and no second write.
C7_ShortWriteIsError ==
    \A i \in DOMAIN log :
        IsShortWrite(i) =>
            /\ ret[log[i].call].kind = "err"
            /\ ret[log[i].call].msg = "short write"
            /\ TransfersOf(log[i].call) = {i}

\* a write that accepted all but one byte, followed by a later call
C7_Witness ==
    \E i \in DOMAIN log :
        /\ IsShortWrite(i)
        /\ log[i].n = FrameLen(log[i].op) - 1
        /\ ret[log[i].call].sent = log[i].n
        /\ i < Len(log)

\* C8: every write of set_legacy_ccid_mode carries the 13-byte legacy frame
\* and every write of check_for_rfid_card the 15-byte Get Data frame, to
\* endpoint 0x01; every read is from endpoint 0x82 into 17 bytes.
C8_FixedFrames ==
    \A i \in DOMAIN log :
        /\ log[i].kind = "write_bulk" =>
            /\ log[i].endpoint = 1
            /\ log[i].op = "set_legacy_ccid_mode" =>
                log[i].bytes = <<255, 112, 7, 107, 7, 162, 5, 161, 3, 139, 1, 0, 0>>
            /\ log[i].op = "check_for_rfid_card" =>
                log[i].bytes = <<111, 5, 0, 0, 0, 0, 0, 1, 0, 0, 255, 202, 0, 0, 0>>
        /\ log[i].kind = "read_bulk" =>
            /\ log[i].endpoint = 130
            /\ log[i].buflen = 17

\* a legacy-mode call that follows a completed query of the other caller
C8_Witness ==
    /\ Len(log) >= 4
    /\ log[1].op = "check_for_rfid_card"
    /\ log[2].kind = "read_bulk"
    /\ log[3].op = "set_legacy_ccid_mode"
    /\ log[3].caller # log[1].caller
    /\ log[4].kind = "read_bulk"

\* C9: the transfers of one call are never interleaved with those of
\* another call on the same session.
C9_NoInterleaving ==
    \A i \in DOMAIN log : \A k \in DOMAIN log :
        (i < k /\ log[i].call = log[k].call) =>
            \A j \in (i + 1)..(k - 1) : log[j].call = log[i].call

\* C10: a call issues at most one write and at most one read, the read after
\* a write that accepted the full frame, and it has returned once a transfer
\* failed or its read was done; nothing is issued again.
C10_OneWriteOneRead ==
    \A c \in 1..ncalls :
        LET W == {i \in TransfersOf(c) : log[i].kind = "write_bulk"}
            R == {i \in TransfersOf(c) : log[i].kind = "read_bulk"}
        IN  /\ Cardinality(W) = 1
            /\ Cardinality(R) <= 1
            /\ \A r \in R : \E w \in W :
                /\ w < r
                /\ log[w].ok
                /\ log[w].n = FrameLen(log[w].op)
            /\ (\E i \in TransfersOf(c) : ~log[i].ok) => ret[c] # Pending
            /\ R # {} => ret[c] # Pending
            /\ ret[c] = Pending => Cardinality(TransfersOf(c)) = 1

\* a read that failed and a write that failed, each left as it was
C10_Witness ==
    /\ ncalls >= 2
    /\ \E c \in 1..ncalls : ret[c].kind = "err" /\ ret[c].msg = "read"
    /\ \E c \in 1..ncalls : ret[c].kind = "err" /\ ret[c].msg = "send"
    /\ \A c \in 1..ncalls : ret[c] # Pending

----------------------------------------------------------------------------
(* Properties of construction and release, checked under SpecOpen *)

\* device i of the enumeration has a readable descriptor with vendor id
\* 0x076B and product id 0x502A
Matches(i) ==
    /\ devices[i].desc_ok
    /\ devices[i].vid = 1899
    /\ devices[i].pid = 20522

\* C11: every call of Reader::new returns a session or an error value; none
\* ends in a panic, whatever the USB environment does.
C11_NewReturnsValue ==
    \A k \in DOMAIN news : news[k].kind \in {"ok", "err"}

\* C12: construction selects the first device of the enumeration whose
\* descriptor is readable and whose ids are 0x076B/0x502A, skipping the
\* unreadable ones; when no device matches both ids it fails with the
\* not-found error and opens no handle.
C12_FirstMatchOrNotFound ==
    /\ \A k \in DOMAIN news :
        news[k].enumerated =>
            IF \E i \in DOMAIN devices : Matches(i)
            THEN /\ news[k].kind = "ok" =>
                        /\ news[k].device \in DOMAIN devices
                        /\ Matches(news[k].device)
                        /\ \A j \in 1..(news[k].device - 1) : ~Matches(j)
                 /\ news[k].kind = "err" => news[k].msg = "Error opening handle"
            ELSE /\ news[k].kind = "err"
                 /\ news[k].msg = "Could not find Omnikey Reader."
    /\ handles \subseteq {news[k].handle : k \in {j \in DOMAIN news : news[j].kind = "ok"}}
    /\ (\A i \in DOMAIN devices : ~Matches(i)) => handles = {}

\* an unreadable reader and a device of the same vendor are passed over and
\* the third device is opened
C12_Witness ==
    /\ Len(devices) = 3
    /\ ~devices[1].desc_ok /\ devices[1].vid = 1899 /\ devices[1].pid = 20522
    /\ devices[2].desc_ok /\ devices[2].vid = 1899 /\ devices[2].pid # 20522
    /\ Len(news) >= 1
    /\ news[1].kind = "ok"
    /\ news[1].device = 3
    /\ news[1].handle \in handles

\* C15: at most one open handle exists for a device at any time.
C15_OneHandlePerDevice ==
    \A h1 \in handles : \A h2 \in handles : h1.dev = h2.dev => h1 = h2

----------------------------------------------------------------------------
(* Further properties of the session, checked under SpecSession *)

\* the position in the log of the write of call c
WriteOf(c) == CHOOSE i \in TransfersOf(c) : log[i].kind = "write_bulk"

\* positions in the log of the reads of call c
ReadsOf(c) == {i \in TransfersOf(c) : log[i].kind = "read_bulk"}

\* C13: set_legacy_ccid_mode returns success exactly when its write
\* succeeded accepting all 13 bytes and its read succeeded; a write error or
\* a read error gives an error; the bytes and the count the read returned do
\* not matter.
C13_LegacySuccessIffTransfersOk ==
    \A c \in 1..ncalls :
        (log[WriteOf(c)].op = "set_legacy_ccid_mode" /\ ret[c] # Pending) =>
            /\ ret[c].kind \in {"ok", "err"}
            /\ ret[c].kind = "ok" <=>
                    /\ log[WriteOf(c)].ok
                    /\ log[WriteOf(c)].n = 13
                    /\ \E r \in ReadsOf(c) : log[r].ok

\* a legacy-mode call that succeeded on an empty acknowledgement, and one
\* that failed on its read
C13_Witness ==
    /\ \E c \in 1..ncalls :
        /\ log[WriteOf(c)].op = "set_legacy_ccid_mode"
        /\ ret[c].kind = "ok"
        /\ \E r \in ReadsOf(c) : log[r].n = 0
    /\ \E c \in 1..ncalls :
        /\ log[WriteOf(c)].op = "set_legacy_ccid_mode"
        /\ ret[c].kind = "err"
        /\ \E r \in ReadsOf(c) : ~log[r].ok

Padded(k, i) == IF i < log[k].n THEN log[k].bytes[i] ELSE 0

\* C19: a successful read of fewer than 17 bytes still makes
\* check_for_rfid_card return a result, decoded from the received bytes
\* followed by zeros; an empty read decodes to length 0, valid = false,
\* identifier 0 and status 0.
C19_ShortReadDecoded ==
    \A k \in DOMAIN log :
        (/\ log[k].kind = "read_bulk"
         /\ log[k].op = "check_for_rfid_card"
         /\ log[k].ok
         /\ log[k].n < 17) =>
            /\ ret[log[k].call].kind = "ok_data"
            /\ ret[log[k].call].value.message_type = Padded(k, 0)
            /\ ret[log[k].call].value.length =
                    <<Padded(k, 1) + 256 * Padded(k, 2), Padded(k, 3) + 256 * Padded(k, 4)>>
            /\ ret[log[k].call].value.chain_parameter = Padded(k, 9)
            /\ log[k].n = 0 =>
                /\ ret[log[k].call].value.valid = FALSE
                /\ ret[log[k].call].value.id = U64Zero
                /\ ret[log[k].call].value.adpu_status = 0

----------------------------------------------------------------------------
(* Properties of the websocket relay, checked under SpecWs and
   SpecRegistryFair *)

\* connection c has fetched its id
HasId(c) == wpc[c] # "new"

\* connection c is between its insert and its user_disconnected
Registered(c) == wpc[c] \in {"recv", "broadcast", "disconnecting", "panicked"}

\* everything queued for connection c so far, in the order it was queued
QueuedFor(c) == fwd[c] \o chan[c]

\* C16: no two connections obtain the same id from NEXT_USER_ID, so every
\* entry of the registry holds the sender of the connection that inserted it.
C16_UniqueUserIds ==
    /\ \A c1 \in Conns : \A c2 \in Conns :
        (HasId(c1) /\ HasId(c2) /\ c1 # c2) => my_id[c1] # my_id[c2]
    /\ \A c \in Conns : Registered(c) =>
        /\ my_id[c] \in DOMAIN users
        /\ users[my_id[c]] = c

\* two connections registered, the one that fetched its id second having
\* been inserted as connection 1
C16_Witness ==
    /\ Registered(1)
    /\ Registered(2)
    /\ my_id[1] = 2
    /\ my_id[2] = 1
    /\ Cardinality(DOMAIN users) = 2

\* C17: the reply to a text message of a registered user is queued for every
\* other registered user and never for the user who sent it.
C17_NotSentToSender ==
    \A c \in Conns : \A i \in DOMAIN QueuedFor(c) : QueuedFor(c)[i].from # c

\* C18: a connection's id is in the registry exactly from its insert to its
\* user_disconnected; once its stream has ended the id is eventually
\* removed; nothing is queued for it after the removal; and the removal
\* leaves every other entry as it was.
C18_RegisteredUntilDisconnected ==
    /\ [](\A c \in Conns :
            Registered(c) <=> (my_id[c] \in DOMAIN users /\ users[my_id[c]] = c))
    /\ [][\A c \in Conns :
            /\ wpc[c] = "done" => Len(chan'[c]) <= Len(chan[c])
            /\ (wpc[c] = "disconnecting" /\ wpc'[c] = "done") =>
                /\ DOMAIN users' = DOMAIN users \ {my_id[c]}
                /\ \A id \in DOMAIN users' : users'[id] = users[id]]_vars
    /\ \A c \in Conns :
            (wpc[c] = "disconnecting") ~> (wpc[c] = "done" /\ my_id[c] \notin DOMAIN users)

\* connection 1 has disconnected with nothing left queued for it, while
\* connection 2 stays registered and has been sent a reply built after that
C18_Witness ==
    /\ wpc[1] = "done"
    /\ my_id[1] \notin DOMAIN users
    /\ Registered(2)
    /\ my_id[2] \in DOMAIN users
    /\ nsent[1] = 1
    /\ nsent[2] = 1
    /\ Len(QueuedFor(1)) = 1
    /\ Len(QueuedFor(2)) = 2
    /\ QueuedFor(2)[1].from = 1
    /\ QueuedFor(2)[2].from = 2

\* C20: the replies to two messages of one connection are queued for, and
\* forwarded to, every recipient in the order the messages were handled.
C20_PerSenderOrder ==
    \A c \in Conns :
        \A i \in DOMAIN QueuedFor(c) : \A j \in DOMAIN QueuedFor(c) :
            (i < j /\ QueuedFor(c)[i].from = QueuedFor(c)[j].from) =>
                QueuedFor(c)[i].seq < QueuedFor(c)[j].seq

\* both replies of connection 1 forwarded to connection 2, first before second
C20_Witness ==
    /\ Len(fwd[2]) = 2
    /\ fwd[2][1].from = 1 /\ fwd[2][1].seq = 1
    /\ fwd[2][2].from = 1 /\ fwd[2][2].seq = 2

====
